---- MODULE Spec2Model ----
(***************************************************************************)
(* Zero Cloud LLM: the command line entry point (main.js).                 *)
(*                                                                         *)
(* The process is modelled as a state machine: main() loads the model,     *)
(* parses the arguments and runs one of the three modes.  The external     *)
(* inference library is the environment: pipeline() succeeds exactly for   *)
(* the precisions in canInit, and every generator call either returns or   *)
(* throws.                                                                 *)
(***************************************************************************)
EXTENDS Integers, Sequences, FiniteSets, TLC

VARIABLES
    args,        \* process.argv.slice(2)
    canInit,     \* environment: the precisions pipeline() can initialize
    pc,          \* position of the single thread of control
    mode,        \* the run*Mode function entered, "none" before
    attempts,    \* dtypes handed to pipeline(), in call order
    generator,   \* the handle returned by pipeline(): its dtype, or "none"
    fatal,       \* the error caught by main()'s catch, or NoError
    calls,       \* the `messages` of every generator call, in call order
    results,     \* outcome of every completed generator call
    replies,     \* what every completed generator call produced
    i,           \* loop index of runDemoMode (1-based)
    stderr,      \* console.error reports, in order
    exitCode,    \* Running, or the process exit status
    rl,          \* readline interface: "none", "open", "closed"
    questions,   \* number of rl.question() prompts issued
    lines,       \* input lines delivered to the question callback
    clears       \* number of console.clear() calls

vars == <<args, canInit, pc, mode, attempts, generator, fatal, calls, results,
          replies, i, stderr, exitCode, rl, questions, lines, clears>>

----------------------------------------------------------------------------
(* Bounds *)

\* Number of input lines an interactive session reads.
MaxLines == 3

----------------------------------------------------------------------------
(* Configuration and constants of the program *)

CONFIG_dtype == "q4f16"

CONFIG_maxTokens == 512

\* CONFIG.temperature (0.7), in tenths.
CONFIG_temperature == 7

\* The documented fallback order: 4-bit (the configured dtype), q8, fp32.
Candidates == <<CONFIG_dtype, "q8", "fp32">>

demos == << "Solve the equation: x^2 - 3x + 2 = 0",
            "What is the capital of Indonesia?",
            "Explain quantum computing in simple terms" >>

Running == -1

NoError == [kind |-> "none", reasons |-> <<>>]

----------------------------------------------------------------------------
(* Strings read from stdin are sequences of characters *)

Whitespace == {" ", "\t"}

toLowerCaseChar(c) ==
    CASE c = "Q" -> "q" [] c = "U" -> "u" [] c = "I" -> "i" [] c = "T" -> "t"
      [] c = "E" -> "e" [] c = "X" -> "x" [] c = "C" -> "c" [] c = "L" -> "l"
      [] c = "A" -> "a" [] c = "R" -> "r" [] OTHER -> c

toLowerCase(s) == [k \in 1..Len(s) |-> toLowerCaseChar(s[k])]

RECURSIVE trimStart(_)
trimStart(s) ==
    IF s # <<>> /\ Head(s) \in Whitespace THEN trimStart(Tail(s)) ELSE s

RECURSIVE trimEnd(_)
trimEnd(s) ==
    IF s # <<>> /\ s[Len(s)] \in Whitespace
    THEN trimEnd(SubSeq(s, 1, Len(s) - 1))
    ELSE s

\* String.prototype.trim
trim(s) == trimEnd(trimStart(s))

\* The lines a user types in the modelled sessions.
InputLines ==
    { <<>>,
      <<" ">>,
      <<"q", "u", "i", "t">>,
      <<"E", "X", "I", "T">>,
      <<" ", "Q", " ">>,
      <<"C", "l", "e", "a", "r">>,
      <<"h", "e", "l", "l", "o">>,
      <<" ", "h", "i", "\t">>,
      <<"q", "u", "i", "t", " ", "n", "o", "w">> }

\* The argument vectors of the modelled runs.
ArgVectors ==
    { <<>>,
      <<"--demo">>,
      <<"--demo", "extra">>,
      <<"--prompt">>,
      <<"--prompt", "What is AI?">>,
      <<"--prompt", "What", "is", "AI?">>,
      <<"--help">>,
      <<"What is AI?">> }

\* Array.prototype.slice(1)
slice1(a) == IF Len(a) <= 1 THEN <<>> ELSE SubSeq(a, 2, Len(a))

\* Array.prototype.join(" ")
RECURSIVE join(_)
join(a) ==
    IF a = <<>> THEN ""
    ELSE IF Len(a) = 1 THEN a[1]
    ELSE a[1] \o " " \o join(Tail(a))

----------------------------------------------------------------------------
(* Initial state: the process has started, nothing has run *)

Init ==
    /\ args \in ArgVectors
    /\ canInit \in SUBSET {Candidates[k] : k \in 1..Len(Candidates)}
    /\ pc = "main"
    /\ mode = "none"
    /\ attempts = <<>>
    /\ generator = "none"
    /\ fatal = NoError
    /\ calls = <<>>
    /\ results = <<>>
    /\ replies = <<>>
    /\ i = 1
    /\ stderr = <<>>
    /\ exitCode = Running
    /\ rl = "none"
    /\ questions = 0
    /\ lines = <<>>
    /\ clears = 0

----------------------------------------------------------------------------
(* main(): banner, then the model load *)

\* main() calls initializePipeline(), which calls pipeline() with CONFIG.dtype.
BeginLoad ==
    /\ pc = "main"
    /\ attempts' = Append(attempts, CONFIG_dtype)
    /\ pc' = "loading"
    /\ UNCHANGED <<args, canInit, mode, generator, fatal, calls, results,
                   replies, i, stderr, exitCode, rl, questions, lines,
                   clears>>

\* pipeline() resolves: initializePipeline returns the generator.
LoadSucceeds ==
    /\ pc = "loading"
    /\ attempts[Len(attempts)] \in canInit
    /\ generator' = attempts[Len(attempts)]
    /\ pc' = "loaded"
    /\ UNCHANGED <<args, canInit, mode, attempts, fatal, calls, results,
                   replies, i, stderr, exitCode, rl, questions, lines,
                   clears>>

\* LoadFails whose catch reports the error but does not rethrow: main() goes
\* on with an undefined generator.
LoadFails_Swallowed ==
    /\ pc = "loading"
    /\ attempts[Len(attempts)] \notin canInit
    /\ stderr' = Append(stderr, "Error loading model")
    /\ pc' = "loaded"
    /\ UNCHANGED <<args, canInit, mode, attempts, generator, fatal, calls,
                   results, replies, i, exitCode, rl, questions, lines,
                   clears>>

\* pipeline() rejects: initializePipeline reports and rethrows, main()'s catch
\* reports the fatal error and exits with status 1.
LoadFails ==
    /\ pc = "loading"
    /\ attempts[Len(attempts)] \notin canInit
    /\ stderr' = stderr \o <<"Error loading model", "Fatal error">>
    /\ fatal' = [kind |-> "load", reasons |-> <<attempts[Len(attempts)]>>]
    /\ exitCode' = 1
    /\ pc' = "exited"
    /\ UNCHANGED <<args, canInit, mode, attempts, generator, calls, results,
                   replies, i, rl, questions, lines, clears>>

----------------------------------------------------------------------------
(* generateResponse *)

\* GenerateOptions that samples at the configured temperature.
GenerateOptions_Sampling(streaming) ==
    [ max_new_tokens |-> CONFIG_maxTokens,
      do_sample      |-> CONFIG_temperature > 0,
      temperature    |-> CONFIG_temperature,
      streamer       |-> streaming ]

\* The options of the generator call on the streaming and the non-streaming
\* path of generateResponse.
GenerateOptions(streaming) ==
    IF streaming
    THEN [ max_new_tokens |-> CONFIG_maxTokens,
           do_sample      |-> FALSE,
           streamer       |-> TRUE ]
    ELSE [ max_new_tokens |-> CONFIG_maxTokens,
           do_sample      |-> FALSE,
           streamer       |-> FALSE ]

\* The options of the generator call of the test script.
testScriptOptions ==
    [ max_new_tokens |-> 512, do_sample |-> FALSE, streamer |-> TRUE ]

\* The library's decoder: greedy decoding is a function of the conversation
\* and the engine; with sampling the random draw enters the reply as well.
Seeds == {1, 2}

Decode(call, seed) ==
    [ input  |-> call.messages,
      engine |-> call.handle,
      sample |-> IF call.options.do_sample THEN seed ELSE 0 ]

NoReply == [input |-> <<>>, engine |-> "none", sample |-> 0]

\* GeneratorCall that keeps a session conversation: the earlier turns and an
\* assistant turn precede the new user turn.
GeneratorCall_WithHistory(prompt) ==
    [ handle   |-> generator,
      messages |->
          (IF calls = <<>> THEN <<>>
           ELSE calls[Len(calls)].messages
                    \o << [role |-> "assistant", content |-> "reply"] >>)
          \o << [role |-> "user", content |-> prompt] >>,
      options  |-> GenerateOptions(TRUE) ]

\* GeneratorCall that loads a pipeline of its own for the call instead of
\* using the handle main() passed in.
GeneratorCall_OwnPipeline(prompt) ==
    [ handle   |-> "reloaded",
      messages |-> << [role |-> "user", content |-> prompt] >>,
      options  |-> GenerateOptions(TRUE) ]

\* The `messages` and options generateResponse hands to the generator
\* (streaming defaults to true at every call site).
GeneratorCall(prompt) ==
    [ handle   |-> generator,
      messages |-> << [role |-> "user", content |-> prompt] >>,
      options  |-> GenerateOptions(TRUE) ]

----------------------------------------------------------------------------
(* main(): argument parsing, after the load *)

\* args.length === 0: runInteractiveMode creates the readline interface and
\* issues the first question; main() then returns.
EnterInteractive ==
    /\ pc = "loaded"
    /\ Len(args) = 0
    /\ mode' = "interactive"
    /\ rl' = "open"
    /\ questions' = questions + 1
    /\ pc' = "awaitInput"
    /\ UNCHANGED <<args, canInit, attempts, generator, fatal, calls, results,
                   replies, i, stderr, exitCode, lines, clears>>

\* args[0] === "--demo"
EnterDemo ==
    /\ pc = "loaded"
    /\ Len(args) > 0
    /\ args[1] = "--demo"
    /\ mode' = "demo"
    /\ i' = 1
    /\ pc' = "demo"
    /\ UNCHANGED <<args, canInit, attempts, generator, fatal, calls, results,
                   replies, stderr, exitCode, rl, questions, lines, clears>>

\* args[0] === "--prompt" with text: runSinglePrompt calls generateResponse.
EnterSinglePrompt ==
    /\ pc = "loaded"
    /\ Len(args) >= 2
    /\ args[1] = "--prompt"
    /\ mode' = "single"
    /\ calls' = Append(calls, GeneratorCall(join(slice1(args))))
    /\ pc' = "generating"
    /\ UNCHANGED <<args, canInit, attempts, generator, fatal, results,
                   replies, i, stderr, exitCode, rl, questions, lines,
                   clears>>

\* args[0] === "--prompt" and args.length < 2: usage, process.exit(1).
UsageMissingPrompt ==
    /\ pc = "loaded"
    /\ Len(args) = 1
    /\ args[1] = "--prompt"
    /\ stderr' = Append(stderr, "Error: --prompt requires a prompt argument")
    /\ exitCode' = 1
    /\ pc' = "exited"
    /\ UNCHANGED <<args, canInit, mode, attempts, generator, fatal, calls,
                   results, replies, i, rl, questions, lines, clears>>

\* UsageUnknownArgument that falls through to the default mode instead.
UsageUnknownArgument_RunsInteractive ==
    /\ pc = "loaded"
    /\ Len(args) > 0
    /\ args[1] \notin {"--demo", "--prompt"}
    /\ mode' = "interactive"
    /\ rl' = "open"
    /\ questions' = questions + 1
    /\ pc' = "awaitInput"
    /\ UNCHANGED <<args, canInit, attempts, generator, fatal, calls, results,
                   replies, i, stderr, exitCode, lines, clears>>

\* Any other first argument: usage, process.exit(1).
UsageUnknownArgument ==
    /\ pc = "loaded"
    /\ Len(args) > 0
    /\ args[1] \notin {"--demo", "--prompt"}
    /\ stderr' = Append(stderr, "Unknown argument")
    /\ exitCode' = 1
    /\ pc' = "exited"
    /\ UNCHANGED <<args, canInit, mode, attempts, generator, fatal, calls,
                   results, replies, i, rl, questions, lines, clears>>

----------------------------------------------------------------------------
(* runDemoMode *)

\* One iteration of the for loop up to the await of generateResponse.
DemoPrompt ==
    /\ pc = "demo"
    /\ i <= Len(demos)
    /\ calls' = Append(calls, GeneratorCall(demos[i]))
    /\ pc' = "generating"
    /\ UNCHANGED <<args, canInit, mode, attempts, generator, fatal, results,
                   replies, i, stderr, exitCode, rl, questions, lines,
                   clears>>

\* The loop condition fails: runDemoMode and main() return.
DemoFinished ==
    /\ pc = "demo"
    /\ i > Len(demos)
    /\ pc' = "idle"
    /\ UNCHANGED <<args, canInit, mode, attempts, generator, fatal, calls,
                   results, replies, i, stderr, exitCode, rl, questions,
                   lines, clears>>

----------------------------------------------------------------------------
(* The generator call completes *)

\* The generator resolved: generateResponse returns to its caller.
GenerateReturns ==
    /\ pc = "generating"
    /\ results' = Append(results, "ok")
    /\ \E seed \in Seeds :
          replies' = Append(replies, Decode(calls[Len(calls)], seed))
    /\ CASE mode = "demo" ->
              /\ i' = i + 1
              /\ pc' = "demo"
              /\ UNCHANGED questions
         [] mode = "single" ->
              /\ pc' = "idle"
              /\ UNCHANGED <<i, questions>>
         [] mode = "interactive" ->
              /\ questions' = questions + 1
              /\ pc' = "awaitInput"
              /\ UNCHANGED i
    /\ UNCHANGED <<args, canInit, mode, attempts, generator, fatal, calls,
                   stderr, exitCode, rl, lines, clears>>

\* GenerateThrowsInteractive without the callback's try/catch: the rejection
\* is unhandled and ends the process.
GenerateThrowsInteractive_Uncaught ==
    /\ pc = "generating"
    /\ mode = "interactive"
    /\ results' = Append(results, "error")
    /\ replies' = Append(replies, NoReply)
    /\ stderr' = Append(stderr, "Error during generation")
    /\ exitCode' = 1
    /\ pc' = "exited"
    /\ UNCHANGED <<args, canInit, mode, attempts, generator, fatal, calls, i,
                   rl, questions, lines, clears>>

\* The generator rejected inside the question callback: generateResponse
\* reports and rethrows, the callback's catch reports and asks again.
GenerateThrowsInteractive ==
    /\ pc = "generating"
    /\ mode = "interactive"
    /\ results' = Append(results, "error")
    /\ replies' = Append(replies, NoReply)
    /\ stderr' = stderr \o <<"Error during generation", "Error">>
    /\ questions' = questions + 1
    /\ pc' = "awaitInput"
    /\ UNCHANGED <<args, canInit, mode, attempts, generator, fatal, calls, i,
                   exitCode, rl, lines, clears>>

\* The generator rejected in runDemoMode or runSinglePrompt: generateResponse
\* reports and rethrows, nothing catches before main()'s catch, which reports
\* the fatal error and exits with status 1.
GenerateThrowsFatal ==
    /\ pc = "generating"
    /\ mode \in {"demo", "single"}
    /\ results' = Append(results, "error")
    /\ replies' = Append(replies, NoReply)
    /\ stderr' = stderr \o <<"Error during generation", "Fatal error">>
    /\ fatal' = [kind |-> "generation", reasons |-> <<Len(calls)>>]
    /\ exitCode' = 1
    /\ pc' = "exited"
    /\ UNCHANGED <<args, canInit, mode, attempts, generator, calls, i, rl,
                   questions, lines, clears>>

----------------------------------------------------------------------------
(* runInteractiveMode: the question callback *)

\* isExitCommand that matches a keyword at the start of the input instead of
\* the whole input.
isExitCommand_StartsWith(userInput) ==
    \E w \in { <<"q", "u", "i", "t">>, <<"e", "x", "i", "t">>, <<"q">> } :
        /\ Len(userInput) >= Len(w)
        /\ SubSeq(toLowerCase(userInput), 1, Len(w)) = w

isExitCommand(userInput) ==
    toLowerCase(userInput) \in
        { <<"q", "u", "i", "t">>, <<"e", "x", "i", "t">>, <<"q">> }

isClearCommand(userInput) ==
    toLowerCase(userInput) = <<"c", "l", "e", "a", "r">>

\* A line arrives while a question is pending.
CanRead ==
    /\ pc = "awaitInput"
    /\ Len(lines) < MaxLines

\* EmptyLine without the early return: the empty text is sent as a prompt.
EmptyLine_Generates(input) ==
    /\ CanRead
    /\ trim(input) = <<>>
    /\ lines' = Append(lines, input)
    /\ calls' = Append(calls, GeneratorCall(trim(input)))
    /\ pc' = "generating"
    /\ UNCHANGED <<args, canInit, mode, attempts, generator, fatal, results,
                   replies, i, stderr, exitCode, rl, questions, clears>>

\* !userInput: ask again.
EmptyLine(input) ==
    /\ CanRead
    /\ trim(input) = <<>>
    /\ lines' = Append(lines, input)
    /\ questions' = questions + 1
    /\ UNCHANGED <<args, canInit, pc, mode, attempts, generator, fatal, calls,
                   results, replies, i, stderr, exitCode, rl, clears>>

\* ExitLine that says goodbye but asks again instead of closing readline.
ExitLine_KeepsAsking(input) ==
    /\ CanRead
    /\ trim(input) # <<>>
    /\ isExitCommand(trim(input))
    /\ lines' = Append(lines, input)
    /\ questions' = questions + 1
    /\ UNCHANGED <<args, canInit, pc, mode, attempts, generator, fatal, calls,
                   results, replies, i, stderr, exitCode, rl, clears>>

\* quit / exit / q: rl.close(), no further question.
ExitLine(input) ==
    /\ CanRead
    /\ trim(input) # <<>>
    /\ isExitCommand(trim(input))
    /\ lines' = Append(lines, input)
    /\ rl' = "closed"
    /\ pc' = "idle"
    /\ UNCHANGED <<args, canInit, mode, attempts, generator, fatal, calls,
                   results, replies, i, stderr, exitCode, questions, clears>>

\* clear: console.clear(), banner, ask again.
ClearLine(input) ==
    /\ CanRead
    /\ trim(input) # <<>>
    /\ ~isExitCommand(trim(input))
    /\ isClearCommand(trim(input))
    /\ lines' = Append(lines, input)
    /\ clears' = clears + 1
    /\ questions' = questions + 1
    /\ UNCHANGED <<args, canInit, pc, mode, attempts, generator, fatal, calls,
                   results, replies, i, stderr, exitCode, rl>>

\* PromptLine that does not await generateResponse: it asks again at once.
PromptLine_NotAwaited(input) ==
    /\ CanRead
    /\ trim(input) # <<>>
    /\ ~isExitCommand(trim(input))
    /\ ~isClearCommand(trim(input))
    /\ lines' = Append(lines, input)
    /\ calls' = Append(calls, GeneratorCall(trim(input)))
    /\ questions' = questions + 1
    /\ UNCHANGED <<args, canInit, pc, mode, attempts, generator, fatal,
                   results, replies, i, stderr, exitCode, rl, clears>>

\* Anything else is a prompt: generateResponse(generator, userInput).
PromptLine(input) ==
    /\ CanRead
    /\ trim(input) # <<>>
    /\ ~isExitCommand(trim(input))
    /\ ~isClearCommand(trim(input))
    /\ lines' = Append(lines, input)
    /\ calls' = Append(calls, GeneratorCall(trim(input)))
    /\ pc' = "generating"
    /\ UNCHANGED <<args, canInit, mode, attempts, generator, fatal, results,
                   replies, i, stderr, exitCode, rl, questions, clears>>

----------------------------------------------------------------------------
(* Process exit *)

\* main() has returned and nothing keeps the event loop alive: the process
\* exits with status 0.
EventLoopDrains ==
    /\ pc = "idle"
    /\ rl # "open"
    /\ exitCode' = 0
    /\ pc' = "exited"
    /\ UNCHANGED <<args, canInit, mode, attempts, generator, fatal, calls,
                   results, replies, i, stderr, rl, questions, lines, clears>>

----------------------------------------------------------------------------

Next ==
    \/ BeginLoad
    \/ LoadSucceeds
    \/ LoadFails
    \/ EnterInteractive
    \/ EnterDemo
    \/ EnterSinglePrompt
    \/ UsageMissingPrompt
    \/ UsageUnknownArgument
    \/ DemoPrompt
    \/ DemoFinished
    \/ GenerateReturns
    \/ GenerateThrowsInteractive
    \/ GenerateThrowsFatal
    \/ \E input \in InputLines : EmptyLine(input)
    \/ \E input \in InputLines : ExitLine(input)
    \/ \E input \in InputLines : ClearLine(input)
    \/ \E input \in InputLines : PromptLine(input)
    \/ EventLoopDrains

Spec == Init /\ [][Next]_vars

\* Node exits once main() has returned and no handle keeps the loop alive.
FairSpec == Spec /\ WF_vars(EventLoopDrains)

TypeOK ==
    /\ args \in ArgVectors
    /\ pc \in {"main", "loading", "loaded", "demo", "awaitInput", "generating",
               "idle", "exited"}
    /\ mode \in {"none", "interactive", "demo", "single"}
    /\ exitCode \in {Running, 0, 1}
    /\ rl \in {"none", "open", "closed"}
    /\ Len(results) <= Len(calls)
    /\ Len(lines) <= MaxLines

----------------------------------------------------------------------------
(* Properties *)

UsageMessages ==
    {"Error: --prompt requires a prompt argument", "Unknown argument"}

UsageErrorReported == \E k \in 1..Len(stderr) : stderr[k] \in UsageMessages

LoadConcluded == pc \notin {"main", "loading"}

IsPrefix(a, b) == Len(a) <= Len(b) /\ a = SubSeq(b, 1, Len(a))

\* C1: when exactly the k-th candidate precision can be initialized, the
\* loader attempts candidates 1..k in list order, never a later one, and
\* returns a handle bound to candidate k.
C1_FallbackStopsAtFirstSuccess ==
    \A k \in 1..Len(Candidates) :
        canInit = {Candidates[k]} =>
            /\ IsPrefix(attempts, SubSeq(Candidates, 1, k))
            /\ LoadConcluded =>
                  /\ attempts = SubSeq(Candidates, 1, k)
                  /\ generator = Candidates[k]

\* C2: when every candidate precision fails, the load failure carries exactly
\* one failure reason per candidate, in attempt order.
C2_LoadFailureCarriesAllReasons ==
    (canInit = {} /\ LoadConcluded) =>
        /\ fatal.kind = "load"
        /\ Len(fatal.reasons) = Len(Candidates)
        /\ fatal.reasons = Candidates

\* C3: a run that reports a usage error exits with status 1 and has made no
\* model load attempt.
C3_UsageErrorBeforeAnyLoad ==
    UsageErrorReported => (exitCode = 1 /\ Len(attempts) = 0)

\* C4: in Demo mode a failed generation on prompt k < P is reported and does
\* not terminate the process: the run goes on to the remaining prompts.
C4_DemoContinuesAfterFailure ==
    \A k \in 1..Len(results) :
        (mode = "demo" /\ k < Len(demos) /\ results[k] = "error") =>
            /\ \E m \in 1..Len(stderr) : stderr[m] = "Error during generation"
            /\ exitCode # 1
            /\ pc = "exited" => Len(calls) = Len(demos)

\* The input lines that are neither empty nor a command.
PromptLines(ls) ==
    { k \in 1..Len(ls) :
        /\ trim(ls[k]) # <<>>
        /\ ~isExitCommand(trim(ls[k]))
        /\ ~isClearCommand(trim(ls[k])) }

ExitProcessed ==
    /\ mode = "interactive"
    /\ lines # <<>>
    /\ isExitCommand(trim(lines[Len(lines)]))

C5_FailureStep ==
    (mode = "interactive" /\ Len(results') > Len(results)
        /\ results'[Len(results')] = "error") =>
        /\ pc' = "awaitInput"
        /\ questions' = questions + 1
        /\ rl' = "open"
        /\ exitCode' = Running
        /\ fatal' = NoError
        /\ Len(stderr') > Len(stderr)
        /\ stderr'[Len(stderr')] = "Error"

C5_SessionSurvives ==
    mode = "interactive" =>
        /\ fatal = NoError
        /\ exitCode # 1
        /\ (pc \in {"idle", "exited"} => ExitProcessed)
        /\ Len(calls) = Cardinality(PromptLines(lines))

\* C5: in Interactive mode a failed generation is caught and reported, a new
\* input prompt is issued, the process keeps running, and later prompt lines
\* still get their generation call.
C5_InteractiveRecoversFromFailure ==
    []C5_SessionSurvives /\ [][C5_FailureStep]_vars

C5_Witness ==
    /\ mode = "interactive"
    /\ \E k \in 1..Len(results) :
          /\ results[k] = "error"
          /\ k < Len(results)
          /\ results[k + 1] = "ok"

\* C6: the process exits with a non-zero status only because of a load
\* failure or a usage error, never because a generate call failed.
C6_OnlyLoadOrUsageTerminates ==
    exitCode = 1 =>
        /\ fatal.kind # "generation"
        /\ fatal.kind = "load" \/ UsageErrorReported

C7_Counts ==
    mode = "interactive" =>
        /\ Len(calls) = Cardinality(PromptLines(lines))
        /\ \A k \in 1..Len(lines) :
              isExitCommand(trim(lines[k])) => k = Len(lines)
        /\ ExitProcessed =>
              /\ rl = "closed"
              /\ pc \in {"idle", "exited"}
              /\ questions = Len(lines)
              /\ Len(results) = Len(calls)
        /\ exitCode \in {Running, 0}
        /\ pc = "exited" => (ExitProcessed /\ exitCode = 0)

C7_ExitingIsTerminal ==
    ExitProcessed => UNCHANGED <<calls, questions, lines, rl, results, replies>>

\* C7: in Interactive mode the generation calls made equal the lines read
\* that are neither empty nor a command; an exit keyword is the last line
\* read, after it no input prompt or generation call occurs, and the process
\* exits with code 0.
C7_ExitKeywordEndsSession ==
    /\ []C7_Counts
    /\ [][C7_ExitingIsTerminal]_vars
    /\ (ExitProcessed ~> (pc = "exited" /\ exitCode = 0))

\* ["hello", "quit"]: one call, for "hello", and exit code 0.
C7_Witness ==
    /\ lines = << <<"h", "e", "l", "l", "o">>, <<"q", "u", "i", "t">> >>
    /\ Len(calls) = 1
    /\ calls[1].messages[1].content = <<"h", "e", "l", "l", "o">>
    /\ exitCode = 0

\* C8: in Interactive mode reading an empty line makes no generation call
\* and issues a new input prompt, whatever came before it.
C8_EmptyLineReprompts ==
    [][ (Len(lines') > Len(lines) /\ lines'[Len(lines')] = <<>>) =>
          /\ calls' = calls
          /\ results' = results
          /\ pc' = "awaitInput"
          /\ rl' = "open"
          /\ questions' = questions + 1
          /\ exitCode' = Running ]_vars

\* Two consecutive empty lines after a completed generation.
C8_Witness ==
    /\ Len(lines) = 3
    /\ lines[2] = <<>>
    /\ lines[3] = <<>>
    /\ Len(calls) = 1
    /\ pc = "awaitInput"
    /\ questions = 4

SingleTurn(text) == << [role |-> "user", content |-> text] >>

\* C9: Demo mode makes exactly P generation calls, in list order, the k-th
\* with a single-turn conversation holding only the k-th prompt, and ends
\* after the P-th.
C9_DemoMakesAllCalls ==
    mode = "demo" =>
        /\ Len(calls) <= Len(demos)
        /\ \A k \in 1..Len(calls) : calls[k].messages = SingleTurn(demos[k])
        /\ pc \in {"idle", "exited"} => Len(calls) = Len(demos)

\* C10: SinglePrompt mode with text T makes exactly one generation call, with
\* one user turn of content T, and then the process exits with code 0.
C10_SinglePromptOneCallExitZero ==
    mode = "single" =>
        /\ Len(calls) = 1
        /\ calls[1].messages = SingleTurn(join(slice1(args)))
        /\ pc = "exited" => exitCode = 0

\* The mode the command line table assigns to an argument vector.
ExpectedMode(a) ==
    IF Len(a) = 0 THEN "interactive"
    ELSE IF a[1] = "--demo" THEN "demo"
    ELSE IF a[1] = "--prompt" /\ Len(a) >= 2 THEN "single"
    ELSE "usage"

ArgsParsed == generator # "none" /\ pc # "loaded"

C11_ModeState ==
    /\ mode # "none" => mode = ExpectedMode(args)
    /\ (ArgsParsed /\ ExpectedMode(args) # "usage") => mode = ExpectedMode(args)
    /\ (ArgsParsed /\ ExpectedMode(args) = "usage") =>
          /\ mode = "none"
          /\ exitCode = 1
          /\ UsageErrorReported
          /\ calls = <<>>
    /\ mode # "interactive" => (rl = "none" /\ questions = 0 /\ lines = <<>>)
    /\ mode # "demo" => i = 1
    /\ mode = "single" => Len(calls) = 1

C11_ModeStep == mode' # mode => (mode = "none" /\ pc = "loaded")

\* C11: the arguments select the mode (none: Interactive, --demo: Demo,
\* --prompt with text: SinglePrompt, anything else: usage error, exit 1, no
\* mode); at most one mode is entered and it is entered at most once.
C11_ArgumentsSelectOneMode ==
    []C11_ModeState /\ [][C11_ModeStep]_vars

C11_Witness ==
    /\ args = <<"--demo", "extra">>
    /\ mode = "demo"
    /\ pc = "exited"
    /\ exitCode = 0

\* Generator calls started and not yet settled.
InFlight == Len(calls) - Len(results)

\* rl.question() prompts issued and not yet answered.
PendingQuestions == questions - Len(lines)

C12_Serialized ==
    /\ InFlight \in {0, 1}
    /\ InFlight = 1 <=> pc = "generating"
    /\ mode = "interactive" =>
          /\ PendingQuestions \in {0, 1}
          /\ pc = "generating" => PendingQuestions = 0
          /\ PendingQuestions = 1 <=> pc = "awaitInput"

C12_TurnStep ==
    /\ calls' # calls =>
          (InFlight = 0 /\ Len(calls') = Len(calls) + 1 /\ results' = results)
    /\ lines' # lines => InFlight = 0
    /\ questions' # questions => (InFlight' = 0 /\ pc' = "awaitInput")

\* C12: at most one generate call is in flight, a call starts only when every
\* earlier call has completed, and in Interactive mode no question is pending
\* and no line is read while a generation is in progress.
C12_GenerationSerialized ==
    []C12_Serialized /\ [][C12_TurnStep]_vars

\* The second interactive turn is generating after the first completed.
C12_Witness ==
    /\ mode = "interactive"
    /\ pc = "generating"
    /\ Len(calls) = 2
    /\ Len(results) = 1
    /\ PendingQuestions = 0

\* The trimmed texts of the prompt lines among ls, in order.
RECURSIVE PromptTexts(_)
PromptTexts(ls) ==
    IF ls = <<>> THEN <<>>
    ELSE LET rest == PromptTexts(SubSeq(ls, 1, Len(ls) - 1))
             last == ls[Len(ls)]
         IN  IF Len(ls) \in PromptLines(ls)
             THEN Append(rest, trim(last))
             ELSE rest

\* C13 as stated: in Interactive mode the conversation is append-only, so
\* the conversation of each generate call extends the one of the call before
\* it (earlier user and assistant turns first, then the new user turn).
C13_ConversationAccumulates ==
    mode = "interactive" =>
        \A n \in 2..Len(calls) :
            /\ Len(calls[n].messages) > Len(calls[n - 1].messages)
            /\ IsPrefix(calls[n - 1].messages, calls[n].messages)

\* C13 (amended): in Interactive mode no session conversation is kept; the
\* n-th generate call receives a fresh conversation of exactly one user turn,
\* the trimmed text of the n-th prompt line, and no earlier turn or reply.
C13_InteractiveConversationIsFresh ==
    mode = "interactive" =>
        /\ Len(calls) = Len(PromptTexts(lines))
        /\ \A n \in 1..Len(calls) :
              calls[n].messages = SingleTurn(PromptTexts(lines)[n])

\* A second turn after a completed first one still carries one turn only.
C13_Witness ==
    /\ mode = "interactive"
    /\ Len(calls) = 2
    /\ results # <<>>
    /\ results[1] = "ok"
    /\ Len(calls[2].messages) = 1
    /\ calls[2].messages[1].content # calls[1].messages[1].content

\* pipeline() rejected the precision it was given.
LoadFailed ==
    /\ LoadConcluded
    /\ attempts[Len(attempts)] \notin canInit

C14_FatalState ==
    LoadFailed =>
        /\ pc = "exited"
        /\ exitCode = 1
        /\ fatal.kind = "load"
        /\ stderr = <<"Error loading model", "Fatal error">>
        /\ mode = "none"
        /\ generator = "none"
        /\ calls = <<>>
        /\ rl = "none"
        /\ questions = 0

\* C14: a failed initial load is fatal: the process exits with status 1, no
\* mode is entered and no generation call is made, then or later.
C14_LoadFailureIsFatal ==
    []C14_FatalState /\ [][LoadFailed => UNCHANGED vars]_vars

C14_Witness ==
    /\ LoadFailed
    /\ args = <<"--demo">>
    /\ canInit = {"q8", "fp32"}
    /\ exitCode = 1

C15_OneHandle ==
    /\ Len(attempts) <= 1
    /\ generator # "none" => (attempts # <<>> /\ generator = attempts[1])
    /\ generator = "none" =>
          (mode = "none" /\ calls = <<>> /\ rl = "none" /\ questions = 0)
    /\ \A n \in 1..Len(calls) :
          (calls[n].handle = generator /\ calls[n].handle # "none")

C15_HandleStep ==
    generator # "none" => (generator' = generator /\ attempts' = attempts)

\* C15: one engine handle per process: a single successful load creates it
\* before any mode logic runs, every generation call uses it, and it is never
\* replaced or reloaded.
C15_SingleEngineHandle ==
    []C15_OneHandle /\ [][C15_HandleStep]_vars

C15_Witness ==
    /\ mode = "interactive"
    /\ Len(calls) = 3
    /\ \A n \in 1..3 : calls[n].handle = "q4f16"
    /\ Len(attempts) = 1

DeterministicOptions(o) ==
    /\ o.do_sample = FALSE
    /\ o.max_new_tokens = CONFIG_maxTokens
    /\ "temperature" \notin DOMAIN o

C16_Options ==
    /\ \A n \in 1..Len(calls) : DeterministicOptions(calls[n].options)
    /\ \A streaming \in BOOLEAN : DeterministicOptions(GenerateOptions(streaming))
    /\ DeterministicOptions(testScriptOptions)

C16_Reproducible ==
    \A m, n \in 1..Len(replies) :
        ( /\ results[m] = "ok"
          /\ results[n] = "ok"
          /\ calls[m].messages = calls[n].messages
          /\ calls[m].handle = calls[n].handle ) => replies[m] = replies[n]

\* C16: every generator call, in every mode and on both paths of
\* generateResponse, disables sampling and passes the configured token limit
\* and no temperature; calls with the same conversation on the same engine
\* yield the same reply.
C16_DeterministicDecoding ==
    C16_Options /\ C16_Reproducible

\* The same prompt asked twice in one session, both calls completed.
C16_Witness ==
    /\ mode = "interactive"
    /\ Len(replies) = 2
    /\ results = <<"ok", "ok">>
    /\ calls[1].messages = calls[2].messages
    /\ replies[1] = replies[2]

\* The case of an input line: its trimmed, lower-cased whole value.
C17_Class(l) ==
    LET u == toLowerCase(trim(l))
    IN  IF u = <<>> THEN "empty"
        ELSE IF u \in { <<"q", "u", "i", "t">>, <<"e", "x", "i", "t">>, <<"q">> }
             THEN "exit"
        ELSE IF u = <<"c", "l", "e", "a", "r">> THEN "clear"
        ELSE "prompt"

C17_Examples ==
    /\ C17_Class(<<>>) = "empty"
    /\ C17_Class(<<" ">>) = "empty"
    /\ C17_Class(<<" ", "Q", " ">>) = "exit"
    /\ C17_Class(<<"E", "X", "I", "T">>) = "exit"
    /\ C17_Class(<<"C", "l", "e", "a", "r">>) = "clear"
    /\ C17_Class(<<"q", "u", "i", "t", " ", "n", "o", "w">>) = "prompt"
    /\ trim(<<" ", "h", "i", "\t">>) = <<"h", "i">>

C17_ReadStep ==
    lines' # lines =>
        LET l == lines'[Len(lines')]
            c == C17_Class(l)
        IN  /\ lines' = Append(lines, l)
            /\ c = "empty" =>
                  /\ calls' = calls
                  /\ clears' = clears
                  /\ questions' = questions + 1
                  /\ pc' = "awaitInput"
                  /\ rl' = "open"
            /\ c = "exit" =>
                  /\ calls' = calls
                  /\ clears' = clears
                  /\ questions' = questions
                  /\ rl' = "closed"
            /\ c = "clear" =>
                  /\ calls' = calls
                  /\ clears' = clears + 1
                  /\ questions' = questions + 1
                  /\ pc' = "awaitInput"
                  /\ rl' = "open"
            /\ c = "prompt" =>
                  /\ Len(calls') = Len(calls) + 1
                  /\ SubSeq(calls', 1, Len(calls)) = calls
                  /\ calls'[Len(calls')].messages = SingleTurn(trim(l))
                  /\ clears' = clears
                  /\ questions' = questions
                  /\ pc' = "generating"
                  /\ rl' = "open"

\* Exactly one branch of the question callback takes a given line.
C17_ExactlyOneCase ==
    CanRead =>
        \A l \in InputLines :
            Cardinality(
                { b \in {"empty", "exit", "clear", "prompt"} :
                    \/ b = "empty"  /\ ENABLED EmptyLine(l)
                    \/ b = "exit"   /\ ENABLED ExitLine(l)
                    \/ b = "clear"  /\ ENABLED ClearLine(l)
                    \/ b = "prompt" /\ ENABLED PromptLine(l) }) = 1

\* C17: an interactive line is classified on its trimmed, lower-cased whole
\* value: whitespace only is empty (no generation), quit/exit/q exits, clear
\* clears and re-prompts without generation, anything else (also a line that
\* only contains a keyword) makes exactly one generation call with the
\* trimmed text as the user turn; every line is exactly one of the four.
C17_LineClassification ==
    /\ []C17_Examples
    /\ []C17_ExactlyOneCase
    /\ [][C17_ReadStep]_vars

\* Whitespace, then "quit now" as a prompt, then " Q " as the exit.
C17_Witness ==
    /\ lines = << <<" ">>,
                  <<"q", "u", "i", "t", " ", "n", "o", "w">>,
                  <<" ", "Q", " ">> >>
    /\ Len(calls) = 1
    /\ calls[1].messages[1].content = <<"q", "u", "i", "t", " ", "n", "o", "w">>
    /\ rl = "closed"

====
